---- MODULE Spec2Model ----
(***************************************************************************)
(* Model of the iOSynthesis device extraction pipeline                     *)
(* (src/iOSynthesis.c): session open/close, the message extractor with its *)
(* sealing step, the inventory extractor, the report and main.             *)
(*                                                                         *)
(* Every call into a library (libimobiledevice, sqlite3, stdio, OpenSSL)   *)
(* that can fail is one step whose outcome is chosen nondeterministically. *)
(* A handle is "null" (never set), "live" (acquired, not released) or      *)
(* "freed" (released; a pointer holding it still is non-null).             *)
(***************************************************************************)
EXTENDS Integers, Sequences, FiniteSets, TLC

VARIABLES
    pc,           \* position of the process in main and its callees
    h,            \* state of every handle: globals and the callees' locals
    files,        \* state of every local file the pipeline writes
    connect_ret,  \* values returned by connect_to_device ({} before it returns)
    sms_ret,      \* values returned by extract_sms_messages
    apps_ret,     \* values returned by extract_installed_apps
    exit_code,    \* values returned by main ({} while running or after a crash)
    freeLog,      \* the release calls made so far, in order
    badFree,      \* resources released while not live (double free)
    sealFault,    \* failure conditions met inside encrypt_file
    reportLists,  \* artifact lines written into the report
    stages,       \* the stages main has started, in order
    closes,       \* number of calls of disconnect_from_device
    dev_apps,     \* the application entries the device reports
    apps_i,       \* the index i of the entry loop of extract_installed_apps
    apps_rows,    \* the rows written to installed_apps.csv after the header
    store,        \* the message rows of the copied store
    cursor,       \* the result rows the prepared statement has yet to yield
    sms_rows,     \* the rows written to sms_messages.csv after the header
    plain,        \* the bytes of the file encrypt_file reads
    rd,           \* the number of bytes encrypt_file has read
    cbuf,         \* the cipher context's buffered partial block
    cprev,        \* the cipher context's chaining block
    ckey,         \* the key the cipher context was set up with
    sealed,       \* the bytes written to the sealed file
    runs          \* two pipeline runs in one directory: identifier, files written

\* The data the extractors and the sealer work on.
appsData == <<dev_apps, apps_i, apps_rows>>
smsData == <<store, cursor, sms_rows>>
sealData == <<plain, rd, cbuf, cprev, ckey, sealed>>
data == <<appsData, smsData, sealData, runs>>

\* The control state: positions, handles, files and results.
control == <<pc, h, files, connect_ret, sms_ret, apps_ret, exit_code, freeLog,
             badFree, sealFault, reportLists, stages, closes>>

vars == <<control, data>>

\* Most calls of disconnect_from_device a caller makes on one session.
MaxCloses == 2

\* Most application entries the device reports.
MaxApps == 3

\* Most message rows in the copied store.
MaxMsgs == 2

\* The size of a read of encrypt_file (1024 in the code, line 41) and the
\* block size of the cipher (16 for AES), scaled down together, and the
\* longest plaintext sealed on its own.
ChunkSize == 4
BlockSize == 2
MaxPlain == 5

\* The longest device identifier of two runs side by side.
MaxUdidLen == 2

\* The session globals (lines 26-29).
SessionGlobals == {"device", "lockdown", "afc", "udid"}

\* The service descriptors returned by lockdownd_start_service (lines 68, 154).
ServiceDescriptors == {"afc_service", "ip_service"}

\* The locals of extract_installed_apps (lines 153-178).
AppsLocals == {"ipc", "client_opts", "apps", "apps_output"}

\* The locals of extract_sms_messages (lines 104-122).
SmsLocals == {"db", "output", "stmt"}

\* The locals of encrypt_file (lines 32-35).
SealLocals == {"ifp", "ofp", "ctx"}

Resources ==
    SessionGlobals \cup ServiceDescriptors \cup AppsLocals \cup SmsLocals
        \cup SealLocals \cup {"report"}

\* The local files written: the copied store, the plaintext table, the
\* sealed table, the inventory and the report.
Files == {"local_db", "sms_messages.csv", "sms_messages.csv.enc",
          "installed_apps.csv", "forensic_report.txt"}

\* What the stdio and libcrypto calls of encrypt_file can do when handed a
\* null FILE* or a null cipher context (undefined behaviour): the process
\* is killed, or the call fails and returns.
NullUse == {"crash", "fails"}

Range(s) == {s[i] : i \in DOMAIN s}

\* The handles after releasing the resources of rs.
Released(rs) == [r \in Resources |-> IF r \in Range(rs) THEN "freed" ELSE h[r]]

\* Release the resources of rs, in order, and nothing else happens to h.
FreeSeq(rs) ==
    /\ h' = Released(rs)
    /\ freeLog' = freeLog \o rs
    /\ badFree' = badFree \cup {r \in Range(rs) : h[r] # "live"}

\* Acquire resource r, and release those of rs afterwards.
AcquireThenFree(r, rs) ==
    /\ h' = [x \in Resources |->
                IF x \in Range(rs) THEN "freed"
                ELSE IF x = r THEN "live" ELSE h[x]]
    /\ freeLog' = freeLog \o rs
    /\ badFree' = badFree \cup {x \in Range(rs) : h[x] # "live" /\ x # r}

NoFree == UNCHANGED <<h, freeLog, badFree>>

\* The three dictionary keys read from an entry (lines 194-201).
AppKeys == {"CFBundleName", "CFBundleIdentifier", "CFBundleVersion"}

\* An application entry: for each key the string found under it, or nothing
\* (no such node, or plist_get_string_val leaves the pointer NULL).
AppEntry(n, b, v) ==
    [CFBundleName |-> n, CFBundleIdentifier |-> b, CFBundleVersion |-> v]

AppEntries ==
    {AppEntry(n, b, v) : n \in {{}, {"a"}, {"b"}}, b \in {{}, {"x"}},
                         v \in {{}, {"1"}}}

\* The arrays instproxy_browse can return, up to MaxApps entries.
AppLists == UNION {[1..n -> AppEntries] : n \in 0..MaxApps}

\* The device of the pipeline run: a complete entry and one without version.
SampleApps == <<AppEntry({"a"}, {"x"}, {"1"}), AppEntry({"b"}, {"x"}, {})>>

\* A row of the message table: date and handle_id are integers or NULL,
\* text is a string or NULL; NULL is the empty set. A string is a sequence
\* of characters.
Message(d, hid, t) == [date |-> d, handle_id |-> hid, text |-> t]

Messages ==
    {Message(d, hid, t) : d \in {{}, {1}, {2}}, hid \in {{1}, {2}},
                          t \in {{}, {<<"t">>}, {<<"t", ",", "t">>}}}

\* The handle table of the copied store: ROWID 1 is a sender, ROWID 2 is
\* no row.
Handles == [r \in {1} |-> <<"p">>]

\* The message tables, up to MaxMsgs rows; the index of a row is its rowid.
Stores == UNION {[1..n -> Messages] : n \in 0..MaxMsgs}

\* The store of the pipeline run: one message with its sender and one
\* whose sender does not resolve.
SampleStore ==
    <<Message({2}, {1}, {<<"t">>}), Message({1}, {2}, {<<"t">>})>>

Init ==
    /\ pc = "main"
    /\ h = [r \in Resources |-> "null"]
    /\ files = [f \in Files |-> "absent"]
    /\ connect_ret = {}
    /\ sms_ret = {}
    /\ apps_ret = {}
    /\ exit_code = {}
    /\ freeLog = <<>>
    /\ badFree = {}
    /\ sealFault = {}
    /\ reportLists = {}
    /\ stages = <<>>
    /\ closes = 0
    /\ dev_apps = SampleApps
    /\ apps_i = 0
    /\ apps_rows = <<>>
    /\ store = SampleStore
    /\ cursor = <<>>
    /\ sms_rows = <<>>
    /\ plain = <<>>
    /\ rd = 0
    /\ cbuf = <<>>
    /\ cprev = <<>>
    /\ ckey = 0
    /\ sealed = <<>>
    /\ runs = <<>>

(***************************************************************************)
(* connect_to_device (lines 54-85)                                         *)
(***************************************************************************)

\* main calls connect_to_device (line 244).
main_start ==
    /\ pc = "main"
    /\ pc' = "c_idevice_new"
    /\ UNCHANGED <<h, files, connect_ret, sms_ret, apps_ret, exit_code,
                   freeLog, badFree, sealFault, reportLists, stages, closes>>
    /\ UNCHANGED data

\* idevice_new (lines 55-58).
c_idevice_new ==
    /\ pc = "c_idevice_new"
    /\ \E ok \in BOOLEAN :
          IF ok
          THEN /\ AcquireThenFree("device", <<>>)
               /\ pc' = "c_handshake"
               /\ UNCHANGED connect_ret
          ELSE /\ NoFree
               /\ connect_ret' = {-1}
               /\ pc' = "m_connected"
    /\ UNCHANGED <<files, sms_ret, apps_ret, exit_code, sealFault,
                   reportLists, stages, closes>>
    /\ UNCHANGED data

\* lockdownd_client_new_with_handshake (lines 60-64).
c_handshake ==
    /\ pc = "c_handshake"
    /\ \E ok \in BOOLEAN :
          IF ok
          THEN /\ AcquireThenFree("lockdown", <<>>)
               /\ pc' = "c_get_udid"
               /\ UNCHANGED connect_ret
          ELSE /\ FreeSeq(<<"device">>)
               /\ connect_ret' = {-1}
               /\ pc' = "m_connected"
    /\ UNCHANGED <<files, sms_ret, apps_ret, exit_code, sealFault,
                   reportLists, stages, closes>>
    /\ UNCHANGED data

\* lockdownd_get_device_udid (line 66): the result is not looked at; on
\* failure udid stays NULL.
c_get_udid ==
    /\ pc = "c_get_udid"
    /\ \E ok \in BOOLEAN :
          IF ok THEN AcquireThenFree("udid", <<>>) ELSE NoFree
    /\ pc' = "c_start_afc"
    /\ UNCHANGED <<files, connect_ret, sms_ret, apps_ret, exit_code,
                   sealFault, reportLists, stages, closes>>
    /\ UNCHANGED data

\* lockdownd_start_service("com.apple.afc") (lines 68-74).
c_start_afc ==
    /\ pc = "c_start_afc"
    /\ \E ok \in BOOLEAN :
          IF ok
          THEN /\ AcquireThenFree("afc_service", <<>>)
               /\ pc' = "c_afc_client_new"
               /\ UNCHANGED connect_ret
          ELSE /\ FreeSeq(<<"lockdown", "device">>)
               /\ connect_ret' = {-1}
               /\ pc' = "m_connected"
    /\ UNCHANGED <<files, sms_ret, apps_ret, exit_code, sealFault,
                   reportLists, stages, closes>>
    /\ UNCHANGED data

\* afc_client_new, then the descriptor is freed on success (lines 76-84).
c_afc_client_new ==
    /\ pc = "c_afc_client_new"
    /\ \E ok \in BOOLEAN :
          IF ok
          THEN /\ AcquireThenFree("afc", <<"afc_service">>)
               /\ connect_ret' = {0}
          ELSE /\ FreeSeq(<<"lockdown", "device">>)
               /\ connect_ret' = {-1}
    /\ pc' = "m_connected"
    /\ UNCHANGED <<files, sms_ret, apps_ret, exit_code, sealFault,
                   reportLists, stages, closes>>
    /\ UNCHANGED data

(***************************************************************************)
(* main (lines 243-257)                                                    *)
(***************************************************************************)

\* The test of line 244 on connect_to_device's result.
MainAborts_never(ret) == FALSE

MainAborts(ret) == ret # {0}

\* Lines 244-249: return 1 on a failed connect, else start the extraction.
main_after_connect ==
    /\ pc = "m_connected"
    /\ IF MainAborts(connect_ret)
       THEN /\ exit_code' = {1}
            /\ pc' = "exited"
            /\ UNCHANGED stages
       ELSE /\ pc' = "s_copy"
            /\ stages' = Append(stages, "sms")
            /\ UNCHANGED exit_code
    /\ UNCHANGED <<h, files, connect_ret, sms_ret, apps_ret, freeLog,
                   badFree, sealFault, reportLists, closes>>
    /\ UNCHANGED data


(***************************************************************************)
(* extract_sms_messages (lines 94-150)                                     *)
(***************************************************************************)

\* The process is killed inside a library call.
Crash ==
    /\ pc' = "crashed"
    /\ UNCHANGED <<h, files, connect_ret, sms_ret, apps_ret, exit_code,
                   freeLog, badFree, sealFault, reportLists, stages, closes>>
    /\ UNCHANGED data

\* The Remote File Fetcher: fetch(session, remote_path, local_path) copies
\* the whole remote file to local_path, or fails with a transfer error.
copy_file(ok) ==
    IF ok THEN [files EXCEPT !["local_db"] = "present"] ELSE files

\* The failed return of extract_sms_messages: main goes on (line 250).
SmsFails ==
    /\ sms_ret' = {-1}
    /\ pc' = "m_after_sms"

\* copy_file(path, local_path) (lines 99-102).
s_copy ==
    /\ pc = "s_copy"
    /\ \E ok \in BOOLEAN :
          /\ files' = copy_file(ok)
          /\ IF ok THEN pc' = "s_open" /\ UNCHANGED sms_ret ELSE SmsFails
    /\ UNCHANGED <<h, connect_ret, apps_ret, exit_code, freeLog, badFree,
                   sealFault, reportLists, stages, closes>>
    /\ UNCHANGED data

\* sqlite3_open (lines 105-108). On an error sqlite3_open still hands back a
\* connection handle that sqlite3_close must release, unless it could not
\* allocate one; the failure branch returns without closing it.
s_open ==
    /\ pc = "s_open"
    /\ \/ /\ AcquireThenFree("db", <<>>)
          /\ pc' = "s_fopen"
          /\ UNCHANGED sms_ret
       \/ /\ \E handle \in BOOLEAN :
                IF handle THEN AcquireThenFree("db", <<>>) ELSE NoFree
          /\ SmsFails
    /\ UNCHANGED <<files, connect_ret, apps_ret, exit_code, sealFault,
                   reportLists, stages, closes>>
    /\ UNCHANGED data

\* fopen(output_file, "w") (lines 110-115).
s_fopen ==
    /\ pc = "s_fopen"
    /\ \E ok \in BOOLEAN :
          IF ok
          THEN /\ AcquireThenFree("output", <<>>)
               /\ files' = [files EXCEPT !["sms_messages.csv"] = "present"]
               /\ sms_rows' = <<>>
               /\ pc' = "s_prepare"
               /\ UNCHANGED sms_ret
          ELSE /\ FreeSeq(<<"db">>)
               /\ UNCHANGED <<files, sms_rows>>
               /\ SmsFails
    /\ UNCHANGED <<connect_ret, apps_ret, exit_code, sealFault, reportLists,
                   stages, closes>>
    /\ UNCHANGED <<store, cursor, appsData, sealData, runs>>

\* The decimal digits of a natural number.
RECURSIVE Digits(_)
Digits(n) ==
    IF n < 10 THEN <<CHOOSE c \in {"0", "1", "2", "3", "4", "5", "6", "7",
                                   "8", "9"} :
                        c = <<"0", "1", "2", "3", "4", "5", "6", "7", "8",
                              "9">>[n + 1]>>
    ELSE Digits(n \div 10) \o Digits(n % 10)

\* datetime(message.date, 'unixepoch') (line 117): a text made from the
\* number, NULL for NULL. The calendar rendering is stood for by the
\* decimal digits after a mark.
DateColumn(d) == IF d = {} THEN {} ELSE {<<"@">> \o Digits(CHOOSE n \in d : TRUE)}

\* handle.id of the LEFT JOIN on message.handle_id = handle.ROWID (lines
\* 118-119): NULL when no handle row matches.
SenderColumn(hid) ==
    IF hid = {} \/ ~ (hid \subseteq DOMAIN Handles) THEN {}
    ELSE {Handles[CHOOSE r \in hid : TRUE]}

\* The result row of message i of table st: its three columns, with the
\* rowid and the date it is ordered by.
ResultRow(st, i) ==
    [id |-> i, date |-> st[i].date,
     cols |-> <<DateColumn(st[i].date), SenderColumn(st[i].handle_id),
                st[i].text>>]

\* ORDER BY message.date DESC (line 120): a is not after b; NULL is the
\* smallest value.
DateGE(a, b) ==
    b = {} \/ (a # {} /\ (CHOOSE n \in a : TRUE) >= (CHOOSE n \in b : TRUE))

\* The orders in which the statement can yield its rows: every message
\* once, dates descending, equal dates in any order.
QueryResults(st) ==
    LET n == Len(st)
        Perms == {q \in [1..n -> 1..n] : \A i, j \in 1..n : i # j => q[i] # q[j]}
    IN  {[k \in 1..n |-> ResultRow(st, q[k])] :
            q \in {q \in Perms :
                      \A i, j \in 1..n :
                          i < j => DateGE(st[q[i]].date, st[q[j]].date)}}

\* sqlite3_prepare_v2 whose failure branch releases and then goes on to the
\* seal step instead of returning.
s_prepare_goes_on ==
    /\ pc = "s_prepare"
    /\ \E ok \in BOOLEAN :
          IF ok
          THEN /\ AcquireThenFree("stmt", <<>>)
               /\ \E q \in QueryResults(store) : cursor' = q
               /\ pc' = "s_rows"
          ELSE /\ FreeSeq(<<"db", "output">>)
               /\ UNCHANGED cursor
               /\ pc' = "e_fopen_in"
    /\ UNCHANGED <<files, connect_ret, sms_ret, apps_ret, exit_code,
                   sealFault, reportLists, stages, closes>>
    /\ UNCHANGED <<store, sms_rows, appsData, sealData, runs>>

\* sqlite3_prepare_v2 (lines 117-128).
s_prepare ==
    /\ pc = "s_prepare"
    /\ \E ok \in BOOLEAN :
          IF ok
          THEN /\ AcquireThenFree("stmt", <<>>)
               /\ \E q \in QueryResults(store) : cursor' = q
               /\ pc' = "s_rows"
               /\ UNCHANGED sms_ret
          ELSE /\ FreeSeq(<<"db", "output">>)
               /\ UNCHANGED cursor
               /\ SmsFails
    /\ UNCHANGED <<files, connect_ret, apps_ret, exit_code, sealFault,
                   reportLists, stages, closes>>
    /\ UNCHANGED <<store, sms_rows, appsData, sealData, runs>>

\* What fprintf's %s can do with a NULL from sqlite3_column_text (undefined
\* behaviour): the process is killed, or the text (null) is written.
PrintNull == {"crash", "(null)"}

\* The text %s writes for a column (lines 132-135).
ColumnText(c) ==
    IF c = {} THEN <<"(", "n", "u", "l", "l", ")">> ELSE CHOOSE t \in c : TRUE

\* The line written for a result row, without its newline (line 132).
RowLine(cols) ==
    ColumnText(cols[1]) \o <<",">> \o ColumnText(cols[2]) \o <<",">>
        \o ColumnText(cols[3])

\* One sqlite3_step of the row loop (lines 130-136): a row, which is
\* written; the end of the rows; or an error. The loop ends on whatever is
\* not a row.
s_rows ==
    /\ pc = "s_rows"
    /\ \/ /\ cursor # <<>>
          /\ \E o \in PrintNull :
                IF o = "crash" /\ \E k \in 1..3 : Head(cursor).cols[k] = {}
                THEN Crash
                ELSE /\ sms_rows' = Append(sms_rows,
                                           [id |-> Head(cursor).id,
                                            date |-> Head(cursor).date,
                                            cols |-> Head(cursor).cols,
                                            line |-> RowLine(Head(cursor).cols)])
                     /\ cursor' = Tail(cursor)
                     /\ UNCHANGED <<control, store, appsData, sealData, runs>>
       \/ /\ cursor = <<>>
          /\ pc' = "s_close"
          /\ UNCHANGED <<h, files, connect_ret, sms_ret, apps_ret, exit_code,
                         freeLog, badFree, sealFault, reportLists, stages,
                         closes>>
          /\ UNCHANGED data
       \/ /\ pc' = "s_close"
          /\ UNCHANGED <<h, files, connect_ret, sms_ret, apps_ret, exit_code,
                         freeLog, badFree, sealFault, reportLists, stages,
                         closes>>
          /\ UNCHANGED data

\* The character codes of the text written to sms_messages.csv.
Ascii ==
    [c \in {"\n", " ", "(", ")", ",", "@", "0", "1", "2", "3", "4", "5", "6",
            "7", "8", "9", "D", "M", "N", "P", "a", "b", "e", "g", "h", "l",
            "m", "n", "o", "p", "r", "s", "t", "u"} |->
        CASE c = "\n" -> 10 [] c = " " -> 32 [] c = "(" -> 40 [] c = ")" -> 41
          [] c = "," -> 44 [] c = "@" -> 64 [] c = "0" -> 48 [] c = "1" -> 49
          [] c = "2" -> 50 [] c = "3" -> 51 [] c = "4" -> 52 [] c = "5" -> 53
          [] c = "6" -> 54 [] c = "7" -> 55 [] c = "8" -> 56 [] c = "9" -> 57
          [] c = "D" -> 68 [] c = "M" -> 77 [] c = "N" -> 78 [] c = "P" -> 80
          [] c = "a" -> 97 [] c = "b" -> 98 [] c = "e" -> 101
          [] c = "g" -> 103 [] c = "h" -> 104 [] c = "l" -> 108
          [] c = "m" -> 109 [] c = "n" -> 110 [] c = "o" -> 111
          [] c = "p" -> 112 [] c = "r" -> 114 [] c = "s" -> 115
          [] c = "t" -> 116 [] c = "u" -> 117]

\* The bytes of a line with its newline.
LineBytes(line) == [i \in 1..(Len(line) + 1) |->
                       IF i <= Len(line) THEN Ascii[line[i]] ELSE Ascii["\n"]]

\* The header written by line 130.
HeaderLine ==
    <<"D", "a", "t", "e", ",", "P", "h", "o", "n", "e", " ", "N", "u", "m",
      "b", "e", "r", ",", "M", "e", "s", "s", "a", "g", "e">>

RECURSIVE RowsBytes(_)
RowsBytes(rows) ==
    IF rows = <<>> THEN <<>>
    ELSE LineBytes(Head(rows).line) \o RowsBytes(Tail(rows))

\* The content of sms_messages.csv when it is closed: the header and the
\* lines written (lines 130-140).
CsvBytes(rows) == LineBytes(HeaderLine) \o RowsBytes(rows)

\* sqlite3_finalize, sqlite3_close, fclose, then encrypt_file is called
\* (lines 138-145).
s_close ==
    /\ pc = "s_close"
    /\ FreeSeq(<<"stmt", "db", "output">>)
    /\ plain' = CsvBytes(sms_rows)
    /\ pc' = "e_fopen_in"
    /\ UNCHANGED <<files, connect_ret, sms_ret, apps_ret, exit_code,
                   sealFault, reportLists, stages, closes>>
    /\ UNCHANGED <<rd, cbuf, cprev, ckey, sealed, appsData, smsData, runs>>

(***************************************************************************)
(* encrypt_file (lines 31-52)                                              *)
(***************************************************************************)

\* The exclusive or of two bytes.
RECURSIVE Xor(_, _)
Xor(a, b) ==
    IF a = 0 THEN b
    ELSE IF b = 0 THEN a
    ELSE 2 * Xor(a \div 2, b \div 2) + ((a + b) % 2)

XorBlock(x, y) == [i \in 1..BlockSize |-> Xor(x[i], y[i])]

\* The block cipher under key k: a keyed permutation of the blocks, here
\* the block reversed with the key added to each byte. It stands for AES.
BlockEncrypt(k, b) == [i \in 1..BlockSize |-> (b[BlockSize + 1 - i] + k) % 256]

BlockDecrypt(k, c) ==
    [i \in 1..BlockSize |-> (c[BlockSize + 1 - i] + 256 - k) % 256]

\* CBC over whole blocks: each block is combined with the block before it
\* (the chaining block prev for the first) and encrypted.
RECURSIVE CbcEncrypt(_, _, _)
CbcEncrypt(k, prev, bytes) ==
    IF bytes = <<>> THEN <<>>
    ELSE LET c == BlockEncrypt(k, XorBlock(SubSeq(bytes, 1, BlockSize), prev))
         IN  c \o CbcEncrypt(k, c, SubSeq(bytes, BlockSize + 1, Len(bytes)))

\* The chaining block after the output out.
ChainAfter(prev, out) ==
    IF out = <<>> THEN prev
    ELSE SubSeq(out, Len(out) - BlockSize + 1, Len(out))

\* EVP_EncryptUpdate (line 42): the buffered bytes and the input give as
\* many whole blocks of output as they hold; the rest stays buffered.
UpdateWhole(buf, in) ==
    SubSeq(buf \o in, 1, (Len(buf \o in) \div BlockSize) * BlockSize)

UpdateRest(buf, in) ==
    SubSeq(buf \o in, (Len(buf \o in) \div BlockSize) * BlockSize + 1,
           Len(buf \o in))

\* EVP_EncryptFinal_ex (line 46): the buffered bytes padded to one block,
\* each padding byte being the number of padding bytes.
PadBlock(buf) ==
    [i \in 1..BlockSize |->
        IF i <= Len(buf) THEN buf[i] ELSE BlockSize - Len(buf)]

\* The key of line 18 as the cipher takes it: the 23 characters and the
\* terminator of the literal are 24 of the 32 bytes AES-256 reads; what the
\* last 8 bytes read past the literal hold is not defined.
KeyByte == 105
KeyTails == {0, 1}
Keys == {(KeyByte + t) % 256 : t \in KeyTails}

\* The initial chaining block: no IV is given (line 36) and the new context
\* holds zeros.
ZeroBlock == [i \in 1..BlockSize |-> 0]

\* fopen(input_file, "rb") (line 32): the result is not tested.
e_fopen_in ==
    /\ pc = "e_fopen_in"
    /\ \E ok \in BOOLEAN :
          IF ok
          THEN AcquireThenFree("ifp", <<>>) /\ UNCHANGED sealFault
          ELSE NoFree /\ sealFault' = sealFault \cup {"src"}
    /\ rd' = 0
    /\ pc' = "e_fopen_out"
    /\ UNCHANGED <<files, connect_ret, sms_ret, apps_ret, exit_code,
                   reportLists, stages, closes>>
    /\ UNCHANGED <<plain, cbuf, cprev, ckey, sealed, appsData, smsData, runs>>

\* fopen(output_file, "wb") (line 33): creates the sealed file, empty; the
\* result is not tested.
e_fopen_out ==
    /\ pc = "e_fopen_out"
    /\ \E ok \in BOOLEAN :
          IF ok
          THEN /\ AcquireThenFree("ofp", <<>>)
               /\ files' = [files EXCEPT !["sms_messages.csv.enc"] = "partial"]
               /\ sealed' = <<>>
               /\ UNCHANGED sealFault
          ELSE /\ NoFree
               /\ sealFault' = sealFault \cup {"dst"}
               /\ UNCHANGED <<files, sealed>>
    /\ pc' = "e_ctx_new"
    /\ UNCHANGED <<connect_ret, sms_ret, apps_ret, exit_code, reportLists,
                   stages, closes>>
    /\ UNCHANGED <<plain, rd, cbuf, cprev, ckey, appsData, smsData, runs>>

\* EVP_CIPHER_CTX_new (line 35): the result is not tested.
e_ctx_new ==
    /\ pc = "e_ctx_new"
    /\ \E ok \in BOOLEAN :
          IF ok
          THEN AcquireThenFree("ctx", <<>>) /\ UNCHANGED sealFault
          ELSE NoFree /\ sealFault' = sealFault \cup {"cipher"}
    /\ pc' = "e_init"
    /\ UNCHANGED <<files, connect_ret, sms_ret, apps_ret, exit_code,
                   reportLists, stages, closes>>
    /\ UNCHANGED data

\* EVP_EncryptInit_ex (line 36): the result is not tested. With a null
\* context the call is undefined. On success the context holds the key, no
\* buffered bytes and the zero chaining block.
e_init ==
    /\ pc = "e_init"
    /\ IF h["ctx"] = "null"
       THEN \E o \in NullUse :
               IF o = "crash" THEN Crash
               ELSE /\ pc' = "e_stream"
                    /\ UNCHANGED <<h, files, connect_ret, sms_ret, apps_ret,
                                   exit_code, freeLog, badFree, sealFault,
                                   reportLists, stages, closes>>
                    /\ UNCHANGED data
       ELSE \E ok \in BOOLEAN :
               /\ IF ok
                  THEN /\ \E k \in Keys : ckey' = k
                       /\ cbuf' = <<>>
                       /\ cprev' = ZeroBlock
                       /\ UNCHANGED sealFault
                  ELSE /\ sealFault' = sealFault \cup {"cipher"}
                       /\ UNCHANGED <<ckey, cbuf, cprev>>
               /\ pc' = "e_stream"
               /\ UNCHANGED <<h, files, connect_ret, sms_ret, apps_ret,
                              exit_code, freeLog, badFree, reportLists,
                              stages, closes>>
               /\ UNCHANGED <<plain, rd, sealed, appsData, smsData, runs>>

\* A call of EVP_EncryptUpdate/Final followed by fwrite (lines 42-43, 46-47)
\* is undefined when the cipher was not set up or the destination is null.
WriteUndefined == "cipher" \in sealFault \/ h["ofp"] = "null"

\* One pass of encrypt-and-write after nread bytes were read: killed,
\* failing, or leaving the context with buffer buf2 and writing out (where
\* the write itself can fail, which is not tested either; a stream that
\* failed once keeps failing).
EncryptAndWrite(next, nread, out, buf2) ==
    IF WriteUndefined
    THEN \E o \in NullUse :
            IF o = "crash" THEN Crash
            ELSE /\ pc' = next
                 /\ rd' = rd + nread
                 /\ UNCHANGED <<h, files, connect_ret, sms_ret, apps_ret,
                                exit_code, freeLog, badFree, sealFault,
                                reportLists, stages, closes>>
                 /\ UNCHANGED <<plain, cbuf, cprev, ckey, sealed, appsData,
                                smsData, runs>>
    ELSE \E ok \in (IF "write" \in sealFault THEN {FALSE} ELSE BOOLEAN) :
            /\ sealFault' = IF ok THEN sealFault ELSE sealFault \cup {"write"}
            /\ sealed' = IF ok THEN sealed \o out ELSE sealed
            /\ cbuf' = buf2
            /\ cprev' = ChainAfter(cprev, out)
            /\ rd' = rd + nread
            /\ pc' = next
            /\ UNCHANGED <<h, files, connect_ret, sms_ret, apps_ret,
                           exit_code, freeLog, badFree, reportLists, stages,
                           closes>>
            /\ UNCHANGED <<plain, ckey, appsData, smsData, runs>>

\* The bytes one fread gets (line 41): up to ChunkSize from the read offset.
NextChunk ==
    SubSeq(plain, rd + 1,
           IF rd + ChunkSize < Len(plain) THEN rd + ChunkSize ELSE Len(plain))

\* One pass of the read loop, or its end (lines 41-44). fread on a null
\* source is undefined: the process is killed, or fread fails and the loop
\* body never runs.
e_stream ==
    /\ pc = "e_stream"
    /\ IF h["ifp"] = "null"
       THEN \E o \in NullUse :
               IF o = "crash" THEN Crash
               ELSE /\ pc' = "e_final"
                    /\ UNCHANGED <<h, files, connect_ret, sms_ret, apps_ret,
                                   exit_code, freeLog, badFree, sealFault,
                                   reportLists, stages, closes>>
                    /\ UNCHANGED data
       ELSE IF NextChunk = <<>>
       THEN /\ pc' = "e_final"
            /\ UNCHANGED <<h, files, connect_ret, sms_ret, apps_ret,
                           exit_code, freeLog, badFree, sealFault,
                           reportLists, stages, closes>>
            /\ UNCHANGED data
       ELSE EncryptAndWrite("e_stream", Len(NextChunk),
                            CbcEncrypt(ckey, cprev, UpdateWhole(cbuf, NextChunk)),
                            UpdateRest(cbuf, NextChunk))

\* A final step that writes nothing.
FinalWritten_none(out) == <<>>

\* The bytes of the last fwrite (line 47): what EVP_EncryptFinal_ex gave.
FinalWritten(out) == out

\* EVP_EncryptFinal_ex and the last fwrite (lines 46-47).
e_final ==
    /\ pc = "e_final"
    /\ EncryptAndWrite("e_cleanup", 0,
                       FinalWritten(CbcEncrypt(ckey, cprev, PadBlock(cbuf))),
                       <<>>)

\* EVP_CIPHER_CTX_free, fclose(ifp), fclose(ofp) (lines 49-51), and the
\* return to extract_sms_messages. fclose of a null stream is undefined. The
\* sealed file is complete when nothing failed on the way.
e_cleanup ==
    /\ pc = "e_cleanup"
    /\ \E o \in NullUse :
          IF o = "crash" /\ (h["ifp"] = "null" \/ h["ofp"] = "null")
          THEN Crash
          ELSE /\ FreeSeq(SelectSeq(<<"ctx", "ifp", "ofp">>,
                                    LAMBDA r : h[r] # "null"))
               /\ files' = IF sealFault = {}
                           THEN [files EXCEPT !["sms_messages.csv.enc"] = "complete"]
                           ELSE files
               /\ pc' = "s_remove"
               /\ UNCHANGED <<connect_ret, sms_ret, apps_ret, exit_code,
                              sealFault, reportLists, stages, closes>>
               /\ UNCHANGED data

\* A clean-up that removes the copied store together with the plaintext.
s_remove_store_too ==
    /\ pc = "s_remove"
    /\ files' = [files EXCEPT !["sms_messages.csv"] = "absent",
                              !["local_db"] = "absent"]
    /\ sms_ret' = {0}
    /\ pc' = "m_after_sms"
    /\ UNCHANGED <<h, connect_ret, apps_ret, exit_code, freeLog, badFree,
                   sealFault, reportLists, stages, closes>>
    /\ UNCHANGED data

\* remove(output_file) and return 0 (lines 146-149), whatever encrypt_file
\* did; removing the file just written is taken to succeed.
s_remove ==
    /\ pc = "s_remove"
    /\ files' = [files EXCEPT !["sms_messages.csv"] = "absent"]
    /\ sms_ret' = {0}
    /\ pc' = "m_after_sms"
    /\ UNCHANGED <<h, connect_ret, apps_ret, exit_code, freeLog, badFree,
                   sealFault, reportLists, stages, closes>>
    /\ UNCHANGED data


(***************************************************************************)
(* extract_installed_apps (lines 152-219)                                  *)
(***************************************************************************)

\* main going from the message extractor straight to the report.
main_call_apps_skip ==
    /\ pc = "m_after_sms"
    /\ pc' = "r_fopen"
    /\ stages' = Append(stages, "report")
    /\ UNCHANGED <<h, files, connect_ret, sms_ret, apps_ret, exit_code,
                   freeLog, badFree, sealFault, reportLists, closes>>
    /\ UNCHANGED data

\* main calls extract_installed_apps (line 250), whatever sms_ret is.
main_call_apps ==
    /\ pc = "m_after_sms"
    /\ pc' = "a_start_service"
    /\ stages' = Append(stages, "apps")
    /\ UNCHANGED <<h, files, connect_ret, sms_ret, apps_ret, exit_code,
                   freeLog, badFree, sealFault, reportLists, closes>>
    /\ UNCHANGED data

\* The failed return of extract_installed_apps: main goes on (line 251).
AppsFails ==
    /\ apps_ret' = {-1}
    /\ pc' = "m_after_apps"

\* lockdownd_start_service("com.apple.mobile.installation_proxy")
\* (lines 156-159).
a_start_service ==
    /\ pc = "a_start_service"
    /\ \E ok \in BOOLEAN :
          IF ok
          THEN /\ AcquireThenFree("ip_service", <<>>)
               /\ pc' = "a_client_new"
               /\ UNCHANGED apps_ret
          ELSE /\ NoFree
               /\ AppsFails
    /\ UNCHANGED <<files, connect_ret, sms_ret, exit_code, sealFault,
                   reportLists, stages, closes>>
    /\ UNCHANGED data

\* instproxy_client_new (lines 161-165): the descriptor is freed on the
\* failure branch only.
a_client_new ==
    /\ pc = "a_client_new"
    /\ \E ok \in BOOLEAN :
          IF ok
          THEN /\ AcquireThenFree("ipc", <<>>)
               /\ pc' = "a_options"
               /\ UNCHANGED apps_ret
          ELSE /\ FreeSeq(<<"ip_service">>)
               /\ AppsFails
    /\ UNCHANGED <<files, connect_ret, sms_ret, exit_code, sealFault,
                   reportLists, stages, closes>>
    /\ UNCHANGED data

\* instproxy_client_options_new and _add (lines 167-168).
a_options ==
    /\ pc = "a_options"
    /\ AcquireThenFree("client_opts", <<>>)
    /\ pc' = "a_browse"
    /\ UNCHANGED <<files, connect_ret, sms_ret, apps_ret, exit_code,
                   sealFault, reportLists, stages, closes>>
    /\ UNCHANGED data

\* instproxy_browse (lines 170-176).
a_browse ==
    /\ pc = "a_browse"
    /\ \E ok \in BOOLEAN :
          IF ok
          THEN /\ AcquireThenFree("apps", <<>>)
               /\ pc' = "a_fopen"
               /\ UNCHANGED apps_ret
          ELSE /\ FreeSeq(<<"client_opts", "ipc">>)
               /\ AppsFails
    /\ UNCHANGED <<files, connect_ret, sms_ret, exit_code, sealFault,
                   reportLists, stages, closes>>
    /\ UNCHANGED data

\* fopen("installed_apps.csv", "w"), the header and i = 0 (lines 178-190).
a_fopen ==
    /\ pc = "a_fopen"
    /\ \E ok \in BOOLEAN :
          IF ok
          THEN /\ AcquireThenFree("apps_output", <<>>)
               /\ files' = [files EXCEPT !["installed_apps.csv"] = "present"]
               /\ apps_rows' = <<>>
               /\ apps_i' = 0
               /\ pc' = "a_rows"
               /\ UNCHANGED apps_ret
          ELSE /\ FreeSeq(<<"apps", "client_opts", "ipc">>)
               /\ UNCHANGED <<files, apps_rows, apps_i>>
               /\ AppsFails
    /\ UNCHANGED <<connect_ret, sms_ret, exit_code, sealFault, reportLists,
                   stages, closes>>
    /\ UNCHANGED <<dev_apps, smsData, sealData, runs>>

\* The text fprintf's %s writes for a field (line 204).
FieldText(e, k) == IF e[k] = {} THEN "(null)" ELSE CHOOSE v \in e[k] : TRUE

\* The row written for an entry (line 204).
AppRow(e) ==
    <<FieldText(e, "CFBundleName"), FieldText(e, "CFBundleIdentifier"),
      FieldText(e, "CFBundleVersion")>>

\* A test that forgets the version.
Emits_without_version(e) ==
    e["CFBundleName"] # {} /\ e["CFBundleIdentifier"] # {}

\* The test of line 203: app_name && bundle_id && version.
Emits(e) ==
    e["CFBundleName"] # {} /\ e["CFBundleIdentifier"] # {}
        /\ e["CFBundleVersion"] # {}

\* One pass of the entry loop, or its end (lines 190-210).
a_rows ==
    /\ pc = "a_rows"
    /\ IF apps_i < Len(dev_apps)
       THEN /\ apps_rows' = IF Emits(dev_apps[apps_i + 1])
                            THEN Append(apps_rows, AppRow(dev_apps[apps_i + 1]))
                            ELSE apps_rows
            /\ apps_i' = apps_i + 1
            /\ UNCHANGED pc
       ELSE /\ pc' = "a_finish"
            /\ UNCHANGED <<apps_rows, apps_i>>
    /\ UNCHANGED <<h, files, connect_ret, sms_ret, apps_ret, exit_code,
                   freeLog, badFree, sealFault, reportLists, stages, closes>>
    /\ UNCHANGED <<dev_apps, smsData, sealData, runs>>

\* fclose, plist_free, instproxy_client_options_free, instproxy_client_free
\* and return 0 (lines 212-218).
a_finish ==
    /\ pc = "a_finish"
    /\ FreeSeq(<<"apps_output", "apps", "client_opts", "ipc">>)
    /\ apps_ret' = {0}
    /\ pc' = "m_after_apps"
    /\ UNCHANGED <<files, connect_ret, sms_ret, exit_code, sealFault,
                   reportLists, stages, closes>>
    /\ UNCHANGED data

(***************************************************************************)
(* generate_report (lines 221-241)                                         *)
(***************************************************************************)

\* main calls generate_report (line 251), whatever apps_ret is.
main_call_report ==
    /\ pc = "m_after_apps"
    /\ pc' = "r_fopen"
    /\ stages' = Append(stages, "report")
    /\ UNCHANGED <<h, files, connect_ret, sms_ret, apps_ret, exit_code,
                   freeLog, badFree, sealFault, reportLists, closes>>
    /\ UNCHANGED data

\* fopen(output_file, "w") (lines 222-226).
r_fopen ==
    /\ pc = "r_fopen"
    /\ \E ok \in BOOLEAN :
          IF ok
          THEN /\ AcquireThenFree("report", <<>>)
               /\ files' = [files EXCEPT !["forensic_report.txt"] = "present"]
               /\ pc' = "r_write"
          ELSE /\ NoFree
               /\ UNCHANGED files
               /\ pc' = "m_after_report"
    /\ UNCHANGED <<connect_ret, sms_ret, apps_ret, exit_code, sealFault,
                   reportLists, stages, closes>>
    /\ UNCHANGED data

\* The artifact lines of the manifest (lines 237-238).
ManifestLines == {"sms_messages.csv.enc", "installed_apps.csv"}

\* The title, the time, the device identifier and the artifact lines, then
\* fclose (lines 228-240).
r_write ==
    /\ pc = "r_write"
    /\ reportLists' = ManifestLines
    /\ FreeSeq(<<"report">>)
    /\ pc' = "m_after_report"
    /\ UNCHANGED <<files, connect_ret, sms_ret, apps_ret, exit_code,
                   sealFault, stages, closes>>
    /\ UNCHANGED data

(***************************************************************************)
(* disconnect_from_device (lines 87-92) and the end of main                *)
(***************************************************************************)

\* The releases made device first.
DisconnectFrees_device_first ==
    SelectSeq(<<"device", "lockdown", "afc", "udid">>, LAMBDA r : h[r] # "null")

\* The releases disconnect_from_device makes, in order: each global that is
\* non-null, whether or not what it points to was released already.
DisconnectFrees ==
    SelectSeq(<<"afc", "lockdown", "device", "udid">>, LAMBDA r : h[r] # "null")

disconnect_from_device ==
    /\ FreeSeq(DisconnectFrees)
    /\ closes' = closes + 1

\* main calls disconnect_from_device (line 253).
main_disconnect ==
    /\ pc = "m_after_report"
    /\ stages' = Append(stages, "close")
    /\ disconnect_from_device
    /\ pc' = "m_disconnected"
    /\ UNCHANGED <<files, connect_ret, sms_ret, apps_ret, exit_code,
                   sealFault, reportLists>>
    /\ UNCHANGED data

\* return 0 (lines 254-256).
main_return ==
    /\ pc = "m_disconnected"
    /\ exit_code' = {0}
    /\ pc' = "exited"
    /\ UNCHANGED <<h, files, connect_ret, sms_ret, apps_ret, freeLog,
                   badFree, sealFault, reportLists, stages, closes>>
    /\ UNCHANGED data

Next ==
    \/ main_start
    \/ c_idevice_new
    \/ c_handshake
    \/ c_get_udid
    \/ c_start_afc
    \/ c_afc_client_new
    \/ main_after_connect
    \/ s_copy
    \/ s_open
    \/ s_fopen
    \/ s_prepare
    \/ s_rows
    \/ s_close
    \/ e_fopen_in
    \/ e_fopen_out
    \/ e_ctx_new
    \/ e_init
    \/ e_stream
    \/ e_final
    \/ e_cleanup
    \/ s_remove
    \/ main_call_apps
    \/ a_start_service
    \/ a_client_new
    \/ a_options
    \/ a_browse
    \/ a_fopen
    \/ a_rows
    \/ a_finish
    \/ main_call_report
    \/ r_fopen
    \/ r_write
    \/ main_disconnect
    \/ main_return

\* The state in which main calls extract_sms_messages, with the session
\* open and any copied store.
SmsInit ==
    /\ pc = "s_copy"
    /\ h = [r \in Resources |->
               IF r \in SessionGlobals THEN "live"
               ELSE IF r = "afc_service" THEN "freed" ELSE "null"]
    /\ files = [f \in Files |-> "absent"]
    /\ connect_ret = {0}
    /\ sms_ret = {}
    /\ apps_ret = {}
    /\ exit_code = {}
    /\ freeLog = <<"afc_service">>
    /\ badFree = {}
    /\ sealFault = {}
    /\ reportLists = {}
    /\ stages = <<"sms">>
    /\ closes = 0
    /\ dev_apps = <<>>
    /\ apps_i = 0
    /\ apps_rows = <<>>
    /\ store \in Stores
    /\ cursor = <<>>
    /\ sms_rows = <<>>
    /\ plain = <<>>
    /\ rd = 0
    /\ cbuf = <<>>
    /\ cprev = <<>>
    /\ ckey = 0
    /\ sealed = <<>>
    /\ runs = <<>>

SmsNext ==
    \/ s_copy
    \/ s_open
    \/ s_fopen
    \/ s_prepare
    \/ s_rows
    \/ s_close

\* extract_sms_messages up to the seal step, on every copied store.
SmsSpec == SmsInit /\ [][SmsNext]_vars

\* A local path: the characters printed from the device identifier, then the
\* literal rest of the name.
FixedPath(name) == <<<<>>, name>>

\* snprintf(local_path, MAX_FILENAME_LEN, "%s_sms.db", udid) (line 97), for
\* identifiers that fit the buffer.
LocalPath(udid) == <<udid, "_sms.db">>

\* snprintf(encrypted_file, MAX_FILENAME_LEN, "%s.enc", output_file)
\* (line 144).
EncryptedPath(path) == <<path[1], path[2] \o ".enc">>

\* The names main passes (lines 249 and 251) and the literal of line 178.
SmsOutput == FixedPath("sms_messages.csv")
AppsOutput == FixedPath("installed_apps.csv")
ReportOutput == FixedPath("forensic_report.txt")

\* The device identifiers of the runs.
UdidChars == {"a", "b"}
Udids == UNION {[1..n -> UdidChars] : n \in 1..MaxUdidLen}

\* Run i writes (creates or truncates) the path and goes on at next.
RunWrites(i, path, next) ==
    runs' = [runs EXCEPT ![i].written = @ \cup {path}, ![i].at = next]

RunSkips(i, next) == runs' = [runs EXCEPT ![i].at = next]

\* copy_file(path, local_path) of a run (line 99): on failure the run goes
\* on with the inventory.
p_copy(i) ==
    /\ runs[i].at = "copy"
    /\ \E ok \in BOOLEAN :
          IF ok THEN RunWrites(i, LocalPath(runs[i].udid), "csv")
          ELSE RunSkips(i, "apps")
    /\ UNCHANGED <<control, appsData, smsData, sealData>>

\* fopen(output_file, "w") of a run (line 110).
p_csv(i) ==
    /\ runs[i].at = "csv"
    /\ \E ok \in BOOLEAN :
          IF ok THEN RunWrites(i, SmsOutput, "seal")
          ELSE RunSkips(i, "apps")
    /\ UNCHANGED <<control, appsData, smsData, sealData>>

\* encrypt_file(output_file, encrypted_file) of a run (lines 144-145, 33).
p_seal(i) ==
    /\ runs[i].at = "seal"
    /\ \E ok \in BOOLEAN :
          IF ok THEN RunWrites(i, EncryptedPath(SmsOutput), "apps")
          ELSE RunSkips(i, "apps")
    /\ UNCHANGED <<control, appsData, smsData, sealData>>

\* fopen("installed_apps.csv", "w") of a run (line 178).
p_apps(i) ==
    /\ runs[i].at = "apps"
    /\ \E ok \in BOOLEAN :
          IF ok THEN RunWrites(i, AppsOutput, "report")
          ELSE RunSkips(i, "report")
    /\ UNCHANGED <<control, appsData, smsData, sealData>>

\* fopen(output_file, "w") of generate_report of a run (line 222).
p_report(i) ==
    /\ runs[i].at = "report"
    /\ \E ok \in BOOLEAN :
          IF ok THEN RunWrites(i, ReportOutput, "done")
          ELSE RunSkips(i, "done")
    /\ UNCHANGED <<control, appsData, smsData, sealData>>

\* Two connected runs of the program in one working directory, each about
\* to extract the messages of its device.
PathInit ==
    /\ pc = "runs"
    /\ h = [r \in Resources |-> "null"]
    /\ files = [f \in Files |-> "absent"]
    /\ connect_ret = {}
    /\ sms_ret = {}
    /\ apps_ret = {}
    /\ exit_code = {}
    /\ freeLog = <<>>
    /\ badFree = {}
    /\ sealFault = {}
    /\ reportLists = {}
    /\ stages = <<>>
    /\ closes = 0
    /\ dev_apps = <<>>
    /\ apps_i = 0
    /\ apps_rows = <<>>
    /\ store = <<>>
    /\ cursor = <<>>
    /\ sms_rows = <<>>
    /\ plain = <<>>
    /\ rd = 0
    /\ cbuf = <<>>
    /\ cprev = <<>>
    /\ ckey = 0
    /\ sealed = <<>>
    /\ runs \in [1..2 -> [udid : Udids, at : {"copy"}, written : {{}}]]

PathNext ==
    \E i \in 1..2 :
        \/ p_copy(i)
        \/ p_csv(i)
        \/ p_seal(i)
        \/ p_apps(i)
        \/ p_report(i)

\* Two runs side by side, their steps interleaved in every order.
PathSpec == PathInit /\ [][PathNext]_vars

\* The plaintexts sealed on their own: every byte string up to MaxPlain.
PlainBytes == {1, 2}
Plaintexts == UNION {[1..n -> PlainBytes] : n \in 0..MaxPlain}

\* The state in which encrypt_file is called, on any plaintext file.
SealInit ==
    /\ pc = "e_fopen_in"
    /\ h = [r \in Resources |->
               IF r \in SessionGlobals THEN "live"
               ELSE IF r \in {"afc_service", "db", "output", "stmt"}
                    THEN "freed" ELSE "null"]
    /\ files = [f \in Files |->
                   IF f \in {"local_db", "sms_messages.csv"} THEN "present"
                   ELSE "absent"]
    /\ connect_ret = {0}
    /\ sms_ret = {}
    /\ apps_ret = {}
    /\ exit_code = {}
    /\ freeLog = <<"afc_service", "stmt", "db", "output">>
    /\ badFree = {}
    /\ sealFault = {}
    /\ reportLists = {}
    /\ stages = <<"sms">>
    /\ closes = 0
    /\ dev_apps = <<>>
    /\ apps_i = 0
    /\ apps_rows = <<>>
    /\ store = <<>>
    /\ cursor = <<>>
    /\ sms_rows = <<>>
    /\ plain \in Plaintexts
    /\ rd = 0
    /\ cbuf = <<>>
    /\ cprev = <<>>
    /\ ckey = 0
    /\ sealed = <<>>
    /\ runs = <<>>

SealNext ==
    \/ e_fopen_in
    \/ e_fopen_out
    \/ e_ctx_new
    \/ e_init
    \/ e_stream
    \/ e_final
    \/ e_cleanup

\* encrypt_file on every plaintext.
SealSpec == SealInit /\ [][SealNext]_vars

\* The state in which main calls extract_installed_apps, here after a
\* failed fetch, with the session open and any device content.
AppsInit ==
    /\ pc = "a_start_service"
    /\ h = [r \in Resources |->
               IF r \in SessionGlobals THEN "live"
               ELSE IF r = "afc_service" THEN "freed" ELSE "null"]
    /\ files = [f \in Files |-> "absent"]
    /\ connect_ret = {0}
    /\ sms_ret = {-1}
    /\ apps_ret = {}
    /\ exit_code = {}
    /\ freeLog = <<"afc_service">>
    /\ badFree = {}
    /\ sealFault = {}
    /\ reportLists = {}
    /\ stages = <<"sms", "apps">>
    /\ closes = 0
    /\ dev_apps \in AppLists
    /\ apps_i = 0
    /\ apps_rows = <<>>
    /\ store = <<>>
    /\ cursor = <<>>
    /\ sms_rows = <<>>
    /\ plain = <<>>
    /\ rd = 0
    /\ cbuf = <<>>
    /\ cprev = <<>>
    /\ ckey = 0
    /\ sealed = <<>>
    /\ runs = <<>>

AppsNext ==
    \/ a_start_service
    \/ a_client_new
    \/ a_options
    \/ a_browse
    \/ a_fopen
    \/ a_rows
    \/ a_finish

\* extract_installed_apps on every device content.
AppsSpec == AppsInit /\ [][AppsNext]_vars

\* The program: one run of main.
Spec == Init /\ [][Next]_vars

\* The program under its scheduling: a single thread that takes its next
\* step whenever it has one (every library call returns).
FairSpec == Spec /\ WF_vars(Next)

(***************************************************************************)
(* The session interface used by a caller other than main                  *)
(***************************************************************************)

\* A caller that, once connect_to_device has failed or the session was
\* closed, calls disconnect_from_device (again).
caller_disconnect ==
    /\ pc = "exited"
    /\ closes < MaxCloses
    /\ disconnect_from_device
    /\ UNCHANGED <<pc, files, connect_ret, sms_ret, apps_ret, exit_code,
                   sealFault, reportLists, stages>>
    /\ UNCHANGED data

CallerNext == Next \/ caller_disconnect

CallerSpec == Init /\ [][CallerNext]_vars


(***************************************************************************)
(* Properties                                                              *)
(***************************************************************************)

\* The handles of the device session: the globals, the service descriptors
\* and the installation-proxy client.
SessionResources == SessionGlobals \cup ServiceDescriptors \cup {"ipc"}

NoneLive(S) == \A r \in S : h[r] # "live"

\* C1: once disconnect_from_device has returned, no service handle and no
\* service descriptor of the session remains open.
C1_ResourceSymmetry == closes > 0 => NoneLive(SessionResources)

\* C2: when connect_to_device has returned failure, everything it acquired
\* before the failing step (device, lockdown client, identifier memory,
\* service descriptor) has been released.
C2_ConnectFailureUnwinds ==
    connect_ret = {-1} =>
        NoneLive({"device", "lockdown", "udid", "afc_service", "afc"})

\* C3: when encrypt_file or extract_sms_messages has returned, on any path,
\* every file handle, database handle, statement and cipher context it
\* opened has been released.
C3_LocalsReleasedOnReturn ==
    /\ pc = "s_remove" => NoneLive(SealLocals)
    /\ sms_ret # {} => NoneLive(SmsLocals \cup SealLocals)

\* C4: in a run whose connect_to_device succeeded, when the process has
\* ended all four later stages have run in order, the session was closed
\* and the exit code is 0.
C4_PartialResultTolerance ==
    (connect_ret = {0} /\ pc \in {"exited", "crashed"}) =>
        /\ stages = <<"sms", "apps", "report", "close">>
        /\ closes = 1
        /\ exit_code = {0}

\* C5: a failed connect_to_device runs no extractor and no report, creates
\* no file and makes main return non-zero; main returns non-zero in no
\* other case.
C5_FailedOnlyFromConnecting ==
    /\ connect_ret = {-1} =>
          /\ stages = <<>>
          /\ sms_ret = {} /\ apps_ret = {} /\ reportLists = {}
          /\ \A f \in Files : files[f] = "absent"
          /\ pc = "exited" => exit_code = {1}
    /\ \A c \in exit_code : c # 0 => connect_ret = {-1}

\* C5 witness: connect_to_device failed after the handshake and main has
\* returned 1.
C5_Witness ==
    /\ pc = "exited"
    /\ connect_ret = {-1}
    /\ exit_code = {1}
    /\ h["lockdown"] = "freed"

\* C6: after the seal step of extract_sms_messages, a successful seal has
\* left the sealed file and no plaintext, a failed seal has left the
\* plaintext and no complete sealed file, and never are both missing.
C6_SealThenDelete ==
    sms_ret = {0} =>
        /\ sealFault = {} =>
              /\ files["sms_messages.csv"] = "absent"
              /\ files["sms_messages.csv.enc"] = "complete"
        /\ sealFault # {} =>
              /\ files["sms_messages.csv"] = "present"
              /\ files["sms_messages.csv.enc"] # "complete"
        /\ ~ (/\ files["sms_messages.csv"] = "absent"
              /\ files["sms_messages.csv.enc"] = "absent")

\* C7: the report lists an artifact only if its extractor succeeded in
\* this run.
C7_ReportHonesty ==
    /\ "sms_messages.csv.enc" \in reportLists => sms_ret = {0}
    /\ "installed_apps.csv" \in reportLists => apps_ret = {0}

\* C8: when main has returned, with 0 or with 1, the session has been torn
\* down: none of its resources is still held.
C8_TeardownBeforeExit ==
    exit_code # {} => NoneLive(SessionGlobals \cup {"afc_service"})

\* The number of times resource r was released.
TimesFreed(r) == Cardinality({i \in DOMAIN freeLog : freeLog[i] = r})

\* C9: disconnect_from_device, called twice or after a failed
\* connect_to_device, releases each resource at most once and never one
\* that is already released or was never acquired.
C9_DisconnectIdempotent ==
    /\ badFree = {}
    /\ \A r \in SessionGlobals : TimesFreed(r) <= 1

\* C10: when the source could not be opened, the destination could not be
\* opened or written, or the cipher could not be set up, the failure of
\* encrypt_file reaches extract_sms_messages, which does not go on as if
\* the sealing had succeeded.
C10_SealFailureReported ==
    (sms_ret # {} /\ sealFault # {}) => sms_ret = {-1}


\* The order in which main runs its stages.
StageOrder == <<"sms", "apps", "report", "close">>

IsPrefix(s, t) == Len(s) <= Len(t) /\ \A i \in DOMAIN s : s[i] = t[i]

\* The positions at which the next step is a call to the device: copy_file
\* over the AFC client, lockdownd_start_service, instproxy_client_new and
\* instproxy_browse.
DeviceCallPcs == {"s_copy", "a_start_service", "a_client_new", "a_browse"}

C16_ConnectedImpliesUdid ==
    /\ connect_ret = {0} => h["udid"] # "null"
    /\ stages # <<>> /\ closes = 0 => h["udid"] = "live"

\* The place of each session global in the release order.
ReleaseRank == [afc |-> 1, lockdown |-> 2, device |-> 3, udid |-> 4]

\* The releases appended to freeLog by the step taken.
NewFrees == SubSeq(freeLog', Len(freeLog) + 1, Len(freeLog'))

\* C17: a call of disconnect_from_device releases exactly the session
\* globals that are non-null, skipping the null ones, in the order AFC
\* client, lockdown client, device, identifier memory.
C17_ReleaseOrder ==
    [][closes' = closes + 1 =>
          /\ Range(NewFrees) = {r \in SessionGlobals : h[r] # "null"}
          /\ \A i, j \in DOMAIN NewFrees :
                i < j => ReleaseRank[NewFrees[i]] < ReleaseRank[NewFrees[j]]
          /\ \A r \in SessionGlobals : h[r] = "null" => h'[r] = "null"]_vars

\* C17 witness: the session was closed while the identifier was null: the
\* other three were released and the identifier's step was skipped.
C17_Witness ==
    /\ closes = 1
    /\ Len(freeLog) >= 3
    /\ SubSeq(freeLog, Len(freeLog) - 2, Len(freeLog))
          = <<"afc", "lockdown", "device">>
    /\ h["udid"] = "null"

\* The positions inside encrypt_file and the removal that follows it.
SealPcs == {"e_fopen_in", "e_fopen_out", "e_ctx_new", "e_init", "e_stream",
            "e_final", "e_cleanup", "s_remove"}

\* C18: a failure of the fetch, the store open, the output open or the
\* query preparation makes extract_sms_messages return -1 once, with the
\* seal step never attempted (it is attempted only after the statement was
\* prepared and finalized), no sealed file created, and the plaintext
\* file, if already created, still there.
C18_EarlyFailureNoSeal ==
    /\ pc \in SealPcs => h["stmt"] = "freed"
    /\ sms_ret = {-1} =>
          /\ h["stmt"] = "null"
          /\ \A r \in SealLocals : h[r] = "null"
          /\ sealFault = {}
          /\ files["sms_messages.csv.enc"] = "absent"
          /\ h["output"] # "null" => files["sms_messages.csv"] = "present"
          /\ Cardinality({i \in DOMAIN stages : stages[i] = "sms"}) = 1

\* C18 witness: the query preparation failed after the plaintext file was
\* created.
C18_Witness ==
    /\ sms_ret = {-1}
    /\ h["output"] = "freed"
    /\ files["sms_messages.csv"] = "present"

\* C20: once the copied store exists it exists in every later state, and
\* so at the end of the run, whether the seal worked or anything later
\* failed.
C20_CopiedStoreKept ==
    /\ [][files["local_db"] = "present" => files'["local_db"] = "present"]_vars
    /\ [](pc \in SealPcs \/ sms_ret = {0} => files["local_db"] = "present")

\* C20 witness: the run has ended after a sealing that went wrong, and the
\* copied store is on disk.
C20_Witness ==
    /\ pc \in {"exited", "crashed"}
    /\ sealFault # {}
    /\ files["local_db"] = "present"


\* An entry that has all three fields.
HasAllThree(e) == \A k \in AppKeys : e[k] # {}

\* The field of an entry that is there.
TheField(e, k) == CHOOSE v \in e[k] : TRUE

\* The entries of the array that have all three fields, in array order.
CompleteEntries == SelectSeq(dev_apps, HasAllThree)

\* C11: when the entry loop has ended, the rows after the header are the
\* entries having all three fields, one row each with name, identifier and
\* version, in their original order, and nothing for the other entries.
C11_InventoryFilter ==
    (pc = "a_finish" \/ apps_ret = {0}) =>
        /\ Len(apps_rows) = Len(CompleteEntries)
        /\ \A i \in DOMAIN apps_rows :
              apps_rows[i] = <<TheField(CompleteEntries[i], "CFBundleName"),
                               TheField(CompleteEntries[i], "CFBundleIdentifier"),
                               TheField(CompleteEntries[i], "CFBundleVersion")>>

\* C11 witness: entries A complete, B without version, C complete; the
\* inventory holds exactly A and C.
C11_Witness ==
    /\ apps_ret = {0}
    /\ dev_apps = <<AppEntry({"a"}, {"x"}, {"1"}), AppEntry({"b"}, {"x"}, {}),
                    AppEntry({"b"}, {"x"}, {"1"})>>
    /\ apps_rows = <<<<"a", "x", "1">>, <<"b", "x", "1">>>>


\* C13: when the row loop has ended, the rows after the header hold every
\* message of the copied store exactly once, those without a resolvable
\* sender included, by descending date.
C13_MessageOrdering ==
    pc = "s_close" =>
        /\ Len(sms_rows) = Len(store)
        /\ \A i \in DOMAIN store : \E k \in DOMAIN sms_rows : sms_rows[k].id = i
        /\ \A j, k \in DOMAIN sms_rows :
              j < k => DateGE(sms_rows[j].date, sms_rows[k].date)

\* The fields of a line: the stretches between its commas.
RECURSIVE FieldsOf(_)
FieldsOf(line) ==
    IF \A i \in DOMAIN line : line[i] # "," THEN <<line>>
    ELSE LET c == CHOOSE i \in DOMAIN line :
                     line[i] = "," /\ \A j \in 1..(i - 1) : line[j] # ","
         IN  <<SubSeq(line, 1, c - 1)>> \o FieldsOf(SubSeq(line, c + 1, Len(line)))

\* The field a column should give: empty for NULL.
FieldFor(c) == IF c = {} THEN <<>> ELSE CHOOSE t \in c : TRUE

\* C19: every line written has exactly three comma-separated fields, the
\* date, sender and body of its row, a NULL column being an empty field.
C19_NullAsEmpty ==
    \A k \in DOMAIN sms_rows :
        FieldsOf(sms_rows[k].line)
            = <<FieldFor(sms_rows[k].cols[1]), FieldFor(sms_rows[k].cols[2]),
                FieldFor(sms_rows[k].cols[3])>>


\* CBC decryption of whole blocks under key k from chaining block prev.
RECURSIVE CbcDecrypt(_, _, _)
CbcDecrypt(k, prev, bytes) ==
    IF Len(bytes) < BlockSize THEN <<>>
    ELSE LET c == SubSeq(bytes, 1, BlockSize)
         IN  XorBlock(BlockDecrypt(k, c), prev)
                 \o CbcDecrypt(k, c, SubSeq(bytes, BlockSize + 1, Len(bytes)))

\* The padding taken off: the last byte says how many bytes to drop.
Unpadded(bytes) ==
    IF bytes = <<>> THEN <<"no block">>
    ELSE IF bytes[Len(bytes)] \notin 1..BlockSize THEN <<"bad padding">>
    ELSE SubSeq(bytes, 1, Len(bytes) - bytes[Len(bytes)])

\* C14: when encrypt_file has run without a failure, what it wrote is a
\* whole number of blocks that decrypts, under the key and the zero
\* chaining block it used, to exactly the bytes of its input.
C14_RoundTrip ==
    (pc = "s_remove" /\ sealFault = {}) =>
        /\ Len(sealed) % BlockSize = 0
        /\ Unpadded(CbcDecrypt(ckey, ZeroBlock, sealed)) = plain

\* C14 witness: a plaintext of exactly one read has been sealed.
C14_Witness ==
    /\ pc = "s_remove"
    /\ sealFault = {}
    /\ Len(plain) = ChunkSize
    /\ files["sms_messages.csv.enc"] = "complete"


\* C12: two runs on devices with different identifiers never write the same
\* local path: the sets of paths they have written are disjoint.
C12_DisjointOutputs ==
    (runs # <<>> /\ runs[1].udid # runs[2].udid) =>
        runs[1].written \cap runs[2].written = {}


\* The positions inside extract_sms_messages after the query was prepared.
PreparedPcs == {"s_rows", "s_close"} \cup SealPcs

\* C21: once the query has been prepared, extract_sms_messages always
\* returns success: whenever control is no longer inside the function after
\* a prepared statement, it has returned 0 and the plaintext is removed,
\* whether the rows ended by exhaustion or by an error and whether or not
\* the seal step worked.
C21_SuccessAfterPrepare ==
    (h["stmt"] # "null" /\ pc \notin PreparedPcs) =>
        /\ sms_ret = {0}
        /\ files["sms_messages.csv"] = "absent"

====
